---- MODULE Spec2Model ----
(***************************************************************************)
(* Alert engine of the Stock-Market-Alert-System.                          *)
(*                                                                         *)
(* The repository holds two Alert schemas (both in src/unnamed/part_006):  *)
(*   - the schema the alert controller uses (lines 1-300): isActive,       *)
(*     triggered, triggeredAt, triggerCount, lastChecked, expiresAt, with  *)
(*     shouldTrigger / trigger / reset / findActiveAlerts;                 *)
(*   - the cooldown schema (lines 302-483): isActive, triggerCount,        *)
(*     lastTriggered, cooldownPeriod, with isInCooldown / canTrigger /     *)
(*     trigger / reset.                                                    *)
(* The alert controller is src/server/middleware/auth.js lines 509-904.    *)
(*                                                                         *)
(* Time is counted in minutes.  Metric values (prices, indicator values)   *)
(* are counted in thousandths, so that 15000 is 15.000 and the two         *)
(* epsilons 0.01 and 0.001 of the equals condition are 10 and 1.           *)
(***************************************************************************)
EXTENDS Integers, FiniteSets, Sequences, TLC

VARIABLES
    now,      \* the wall clock (new Date() / Date.now()), in minutes
    alerts,   \* the Alert collection of the controller's schema: id -> document
    last,     \* the last operation performed and what it answered
    calert,   \* one document of the cooldown schema
    probe,    \* the arguments of an on-demand evaluation (test-alert request)
    monitor,  \* the AlertMonitor singleton, its cron job and its check runs
    batch,    \* one batch of quote fetches over a list of symbols
    ind,      \* one call of a technical-indicator function
    stockData,    \* the StockData collection and the last quote request
    user,         \* one User document: loginAttempts and lockUntil
    userRequests  \* the Map of rateLimitByUser: user id -> {count, resetTime}

\* The state outside the alert store and its engine.
aux == <<monitor, batch, ind>>

\* The state of the services around the engine.
services == <<stockData, user, userRequests>>

vars == <<now, alerts, last, calert, probe, aux, services>>

(***************************************************************************)
(* Bounds of the model.                                                    *)
(***************************************************************************)
MaxTriggers == 2
MaxNow == 61
MaxTicks == 3     \* the cron ticks a run of the monitor model fires
MaxJobs == 2      \* the cron jobs a run of the monitor model schedules
MaxBatch == 2     \* the longest symbol list of a batch of quote fetches
MaxLen == 4       \* the longest price series handed to an indicator
MaxPeriod == 3    \* the longest period handed to an indicator
MaxCacheNow == 7  \* the last minute of a run of the quote cache model
MaxLockNow == 122 \* the last minute of a run of the account lockout model
MaxAttempts == 7  \* the failed logins a run of the lockout model records
MaxRequests == 2  \* maxRequests of the rate limiter of the model
MaxRateNow == 17  \* the last minute of a run of the rate limiter model

(***************************************************************************)
(* Program constants.                                                      *)
(***************************************************************************)
Null == -1            \* JavaScript null
Undefined == -2       \* JavaScript undefined / a path the document lacks
CooldownDefault == 60 \* cooldownPeriod default, in minutes
EpsilonModel == 10    \* 0.01, the equals tolerance of shouldTrigger
EpsilonTest == 1      \* 0.001, the equals tolerance of evaluateCondition
TriggerCountDefault == 0  \* triggerCount default
BollingerMultiplier == 2  \* multiplier default of calculateBollingerBands
RSIMax == 10000           \* 100, the RSI without losses, in hundredths

\* The document ids of the store: the model's store holds at most one alert.
AlertIds == {1}
Users == {"u1", "u2"}
\* The id of an answer that names no alert.
NoId == Null

\* The clock readings the model visits: the start, one minute later, the
\* middle of a default cooldown, its end, and the minutes after it.
Instants == {0, 1, 30} \cup (CooldownDefault..MaxNow)

Conditions == {"above", "below", "equals", "crosses_above", "crosses_below"}
AlertTypes == {"price", "volume", "change", "technical"}
\* The indicator types the request validator admits, and the schema's enum.
IndicatorTypes == {"rsi", "sma", "ema", "macd", "bollinger"}
SchemaIndicatorTypes == IndicatorTypes \cup {"stochastic"}
NoString == "undefined"

\* Metric values used as inputs, in thousandths.
Values == {10000, 15000, 15005, 20000, 30000}
Targets == {15000, 25000}

Abs(x) == IF x < 0 THEN -x ELSE x

\* JavaScript's conversion of null to a number in a comparison or subtraction.
ToNumber(x) == IF x = Null THEN 0 ELSE x

\* JavaScript truthiness of a date-or-null path and of a number-or-undefined.
IsDate(d) == d # Null /\ d # Undefined
Falsy(n) == n = Undefined \/ n = Null \/ n = 0

(***************************************************************************)
(* The controller's Alert schema (part_006 lines 1-300).                   *)
(***************************************************************************)

\* A variant of status that checks the expiry first.
statusExpiredFirst(a, t) ==
    IF IsDate(a.expiresAt) /\ a.expiresAt < t THEN "expired"
    ELSE IF ~a.isActive THEN "inactive"
    ELSE IF a.triggered THEN "triggered"
    ELSE "active"

\* alertSchema.virtual('status')
status(a, t) ==
    IF ~a.isActive THEN "inactive"
    ELSE IF a.triggered THEN "triggered"
    ELSE IF IsDate(a.expiresAt) /\ a.expiresAt < t THEN "expired"
    ELSE "active"

\* The condition switch of shouldTrigger.
conditionSwitch(a, currentValue, previousValue) ==
    CASE a.condition = "above" -> ToNumber(currentValue) > a.targetValue
      [] a.condition = "below" -> ToNumber(currentValue) < a.targetValue
      [] a.condition = "equals" ->
             Abs(ToNumber(currentValue) - a.targetValue) < EpsilonModel
      [] a.condition = "crosses_above" ->
             /\ previousValue # Null
             /\ previousValue <= a.targetValue
             /\ ToNumber(currentValue) > a.targetValue
      [] a.condition = "crosses_below" ->
             /\ previousValue # Null
             /\ previousValue >= a.targetValue
             /\ ToNumber(currentValue) < a.targetValue
      [] OTHER -> FALSE

\* A variant of shouldTrigger without the expiry check.
shouldTriggerNoExpiry(a, currentValue, previousValue, t) ==
    IF ~a.isActive \/ a.triggered THEN FALSE
    ELSE conditionSwitch(a, currentValue, previousValue)

\* A variant of shouldTrigger whose crossings compare the previous value
\* strictly.
shouldTriggerStrictCrossing(a, currentValue, previousValue, t) ==
    IF ~a.isActive \/ a.triggered THEN FALSE
    ELSE IF IsDate(a.expiresAt) /\ a.expiresAt < t THEN FALSE
    ELSE IF a.condition = "crosses_above"
    THEN /\ previousValue # Null
         /\ previousValue < a.targetValue
         /\ ToNumber(currentValue) > a.targetValue
    ELSE IF a.condition = "crosses_below"
    THEN /\ previousValue # Null
         /\ previousValue > a.targetValue
         /\ ToNumber(currentValue) < a.targetValue
    ELSE conditionSwitch(a, currentValue, previousValue)

\* alertSchema.methods.shouldTrigger(currentValue, previousValue = null)
shouldTrigger(a, currentValue, previousValue, t) ==
    IF ~a.isActive \/ a.triggered THEN FALSE
    ELSE IF IsDate(a.expiresAt) /\ a.expiresAt < t THEN FALSE
    ELSE conditionSwitch(a, currentValue, previousValue)

\* A variant of trigger that does not count the trigger.
triggerNoCount(a, t) ==
    [a EXCEPT !.triggered = TRUE,
              !.triggeredAt = t,
              !.lastChecked = t]

\* alertSchema.methods.trigger
trigger(a, t) ==
    [a EXCEPT !.triggered = TRUE,
              !.triggeredAt = t,
              !.triggerCount = @ + 1,
              !.lastChecked = t]

\* alertSchema.methods.reset
reset(a, t) ==
    [a EXCEPT !.triggered = FALSE,
              !.triggeredAt = Undefined,
              !.lastChecked = t]

\* alertSchema.statics.findActiveAlerts: the ids the query matches.
\* { expiresAt: { $exists: false } } matches only a document without the
\* path; { expiresAt: { $gt: now } } matches only a date.
findActiveAlerts(store, t) ==
    {id \in DOMAIN store :
        /\ store[id].isActive = TRUE
        /\ store[id].triggered = FALSE
        /\ \/ store[id].expiresAt = Undefined
           \/ IsDate(store[id].expiresAt) /\ store[id].expiresAt > t}

(***************************************************************************)
(* The alert controller (auth.js lines 509-904) and its routes.            *)
(***************************************************************************)

\* evaluateCondition(currentValue, condition, targetValue)
evaluateCondition(currentValue, condition, targetValue) ==
    CASE condition = "above" -> ToNumber(currentValue) > targetValue
      [] condition = "below" -> ToNumber(currentValue) < targetValue
      [] condition = "equals" ->
             Abs(ToNumber(currentValue) - targetValue) < EpsilonTest
      [] condition = "crosses_above" -> ToNumber(currentValue) > targetValue
      [] condition = "crosses_below" -> ToNumber(currentValue) < targetValue
      [] OTHER -> FALSE

\* What an operation leaves in `last`: its name, the alert id and arguments it
\* was called with, the HTTP status (0 where there is none), the trigger
\* decision, the TriggerEvents handed to the notification sink and the ids
\* a tick loaded.
Answer(op, id, code, fired, emitted) ==
    [op |-> op, id |-> id, code |-> code, fired |-> fired, emitted |-> emitted,
     args |-> <<>>, loaded |-> {}]

\* validateAlert, the middleware of POST /api/alerts.
validateAlert(body) ==
    /\ body.alertType \in AlertTypes
    /\ body.condition \in Conditions
    /\ body.targetValue # Undefined /\ body.targetValue >= 0
    /\ body.indicatorType \in IndicatorTypes \cup {NoString}

\* The document new Alert({...}) builds in createAlert, schema defaults applied.
NewAlert(u, body) ==
    [userId |-> u,
     alertType |-> body.alertType,
     condition |-> body.condition,
     targetValue |-> body.targetValue,
     indicatorType |-> body.indicatorType,
     isActive |-> TRUE,
     triggered |-> FALSE,
     triggeredAt |-> Undefined,
     triggerCount |-> TriggerCountDefault,
     lastChecked |-> Undefined,
     expiresAt |-> IF IsDate(body.expiresAt) THEN body.expiresAt ELSE Null]

\* The bodies of create requests the model sends.
CreateBodies ==
    [alertType : {"price", "technical", NoString},
     condition : {"above", "crosses_above"},
     targetValue : {Undefined, 0, 25000},
     indicatorType : {NoString, "rsi"},
     expiresAt : {Undefined, 1}]

\* The HTTP status createAlert answers for a body.
createCode(body) ==
    IF ~validateAlert(body) THEN 400
    ELSE IF body.alertType = NoString \/ body.condition = NoString THEN 400
    ELSE IF body.alertType = "price" /\ Falsy(body.targetValue) THEN 400
    ELSE IF body.alertType = "technical"
            /\ (body.indicatorType = NoString \/ Falsy(body.targetValue)) THEN 400
    ELSE 201

FreeIds == AlertIds \ DOMAIN alerts

\* POST /api/alerts: validateAlert, then createAlert.  Every request of the
\* model carries a valid symbol.
createAlert(u, body) ==
    /\ FreeIds # {}
    /\ LET id == CHOOSE i \in FreeIds : \A j \in FreeIds : i <= j
           code == createCode(body)
       IN  /\ alerts' = IF code = 201
                        THEN alerts @@ (id :> NewAlert(u, body))
                        ELSE alerts
           /\ last' = Answer("create", IF code = 201 THEN id ELSE NoId, code, FALSE, <<>>)
    /\ UNCHANGED <<now, calert, probe, aux, services>>

\* The paths a PUT body may carry in the model, one path per request.
\* updateAlert deletes userId, triggeredAt and triggerCount from the body.
Stripped == {"userId", "triggeredAt", "triggerCount"}

\* Alert.findOneAndUpdate(filter, updates, { runValidators: true }) on one
\* path.  A body { $set: { userId: value } } has no key userId for
\* updateAlert to delete, and findOneAndUpdate applies its $set.
ApplyUpdate(a, path, value) ==
    CASE path = "isActive" -> [a EXCEPT !.isActive = value]
      [] path = "$set.userId" -> [a EXCEPT !.userId = value]
      [] path = "triggered" -> [a EXCEPT !.triggered = value]
      [] path = "alertType" -> [a EXCEPT !.alertType = value]
      [] path = "indicatorType" -> [a EXCEPT !.indicatorType = value]
      [] path = "expiresAt" -> [a EXCEPT !.expiresAt = value]
      [] path = "targetValue" -> [a EXCEPT !.targetValue = value]
      [] OTHER -> a

\* The enum validators that runValidators applies to the updated path.
UpdateValid(path, value) ==
    CASE path = "alertType" -> value \in AlertTypes
      [] path = "indicatorType" -> value \in SchemaIndicatorTypes \cup {NoString}
      [] OTHER -> TRUE

Owns(u, id) == id \in DOMAIN alerts /\ alerts[id].userId = u

\* PUT /api/alerts/:id: updateAlert (the route applies no validation middleware).
updateAlert(u, id, path, value) ==
    /\ IF ~Owns(u, id)
       THEN /\ alerts' = alerts
            /\ last' = Answer("update", id, 404, FALSE, <<>>)
       ELSE IF path \in Stripped
       THEN /\ alerts' = alerts
            /\ last' = Answer("update", id, 200, FALSE, <<>>)
       ELSE IF ~UpdateValid(path, value)
       THEN /\ alerts' = alerts
            /\ last' = Answer("update", id, 500, FALSE, <<>>)
       ELSE /\ alerts' = [alerts EXCEPT ![id] = ApplyUpdate(@, path, value)]
            /\ last' = Answer("update", id, 200, FALSE, <<>>)
    /\ UNCHANGED <<now, calert, probe, aux, services>>

\* GET /api/alerts/:id: getAlert.
getAlert(u, id) ==
    /\ last' = Answer("get", id, IF Owns(u, id) THEN 200 ELSE 404, FALSE, <<>>)
    /\ UNCHANGED <<now, alerts, calert, probe, aux, services>>

\* DELETE /api/alerts/:id: deleteAlert.
deleteAlert(u, id) ==
    /\ IF ~Owns(u, id)
       THEN /\ alerts' = alerts
            /\ last' = Answer("delete", id, 404, FALSE, <<>>)
       ELSE /\ alerts' = [i \in DOMAIN alerts \ {id} |-> alerts[i]]
            /\ last' = Answer("delete", id, 200, FALSE, <<>>)
    /\ UNCHANGED <<now, calert, probe, aux, services>>

\* What `alert.status = v` does to the document: status is a virtual with a
\* getter only, so the assignment sets no path of the document.
SetStatus(a, v) == a

\* PATCH /api/alerts/:id/toggle: toggleAlert.
toggleAlert(u, id) ==
    /\ IF ~Owns(u, id)
       THEN /\ alerts' = alerts
            /\ last' = Answer("toggle", id, 404, FALSE, <<>>)
       ELSE LET a == alerts[id]
                wanted == IF status(a, now) = "active" THEN "paused" ELSE "active"
            IN  /\ alerts' = [alerts EXCEPT ![id] = SetStatus(a, wanted)]
                /\ last' = Answer("toggle", id, 200, FALSE, <<>>)
    /\ UNCHANGED <<now, calert, probe, aux, services>>

\* alertSchema.index({ expiresAt: 1 }, { expireAfterSeconds: 0 }): the
\* database's TTL monitor removes a document whose expiresAt date has passed.
ttlExpire(id) ==
    /\ id \in DOMAIN alerts
    /\ IsDate(alerts[id].expiresAt)
    /\ alerts[id].expiresAt < now
    /\ alerts' = [i \in DOMAIN alerts \ {id} |-> alerts[i]]
    /\ last' = Answer("ttl", id, 0, FALSE, <<>>)
    /\ UNCHANGED <<now, calert, probe, aux, services>>

(***************************************************************************)
(* The engine steps on a stored alert.  The monitor's checkAlerts is a     *)
(* stub in the source; the evaluation step and the tick's load step are    *)
(* the ones the specification describes, built from the schema's methods.  *)
(***************************************************************************)

\* The TriggerEvent of the specification's data model.
TriggerEvent(id, metricValue, t) ==
    [alertId |-> id, metricValue |-> metricValue, timestamp |-> t]

\* evaluate(alert, metricNow, metricPrev): if shouldTrigger, then trigger
\* and hand one TriggerEvent to the notification sink.
EvaluateAlert(id, currentValue, previousValue) ==
    /\ id \in DOMAIN alerts
    /\ LET fired == shouldTrigger(alerts[id], currentValue, previousValue, now)
       IN  /\ fired => alerts[id].triggerCount < MaxTriggers
           /\ alerts' = IF fired
                        THEN [alerts EXCEPT ![id] = trigger(@, now)]
                        ELSE alerts
           /\ last' = [Answer("evaluate", id, 0, fired,
                               IF fired
                               THEN <<TriggerEvent(id, currentValue, now)>>
                               ELSE <<>>)
                          EXCEPT !.args = <<currentValue, previousValue>>]
    /\ UNCHANGED <<now, calert, probe, aux, services>>

\* alert.reset() on a stored alert.
ResetAlert(id) ==
    /\ id \in DOMAIN alerts
    /\ alerts' = [alerts EXCEPT ![id] = reset(@, now)]
    /\ last' = Answer("reset", id, 0, FALSE, <<>>)
    /\ UNCHANGED <<now, calert, probe, aux, services>>

\* Step 1 of a tick: load the alerts to evaluate with findActiveAlerts.
RunTick ==
    /\ last' = [Answer("tick", NoId, 0, FALSE, <<>>)
                   EXCEPT !.loaded = findActiveAlerts(alerts, now)]
    /\ UNCHANGED <<now, alerts, calert, probe, aux, services>>

\* AlertMonitor.checkAlerts as the source has it: it logs and loads nothing.
checkAlerts ==
    /\ last' = Answer("checkAlerts", NoId, 0, FALSE, <<>>)
    /\ UNCHANGED <<now, alerts, calert, probe, aux, services>>

\* Time passes: the clock jumps to a later instant.
Advance ==
    /\ \E t \in Instants : t > now /\ now' = t
    /\ last' = Answer("advance", NoId, 0, FALSE, <<>>)
    /\ UNCHANGED <<alerts, calert, probe, aux, services>>

(***************************************************************************)
(* The cooldown schema (part_006 lines 302-483).                           *)
(***************************************************************************)

\* alertSchema.virtual('status') of the cooldown schema
cooldownStatus(a) ==
    IF ~a.isActive THEN "inactive"
    ELSE IF a.lastTriggered # Null THEN "triggered"
    ELSE "active"

\* alertSchema.virtual('isInCooldown'); cooldownPeriod and the clock are both
\* in minutes here, the source converts both to milliseconds.
isInCooldown(a, t) ==
    IF a.lastTriggered = Null THEN FALSE
    ELSE (t - a.lastTriggered) < a.cooldownPeriod

\* A variant of canTrigger that ignores the cooldown.
canTriggerIgnoresCooldown(a, t) == a.isActive

\* alertSchema.methods.canTrigger
canTrigger(a, t) == a.isActive /\ ~isInCooldown(a, t)

\* alertSchema.methods.trigger of the cooldown schema
cooldownTrigger(a, t) ==
    [a EXCEPT !.lastTriggered = t, !.triggerCount = @ + 1]

\* alertSchema.methods.reset of the cooldown schema
cooldownReset(a) ==
    [a EXCEPT !.lastTriggered = Null, !.triggerCount = 0]

\* A new document of the cooldown schema, defaults applied.
NewCooldownAlert(active, period) ==
    [isActive |-> active, triggerCount |-> 0,
     lastTriggered |-> Null, cooldownPeriod |-> period]

\* The engine's evaluation of the cooldown-schema alert: `satisfied` says
\* whether the alert's condition holds of the metric; the alert triggers if
\* it does and canTrigger() allows it.
CooldownEvaluate(satisfied) ==
    /\ LET fired == satisfied /\ canTrigger(calert, now)
       IN  /\ fired => calert.triggerCount < MaxTriggers
           /\ calert' = IF fired THEN cooldownTrigger(calert, now) ELSE calert
           /\ last' = [Answer("evaluate", NoId, 0, fired,
                               IF fired
                               THEN <<TriggerEvent(NoId, 0, now)>>
                               ELSE <<>>)
                          EXCEPT !.args = <<satisfied>>]
    /\ UNCHANGED <<now, alerts, probe, aux, services>>

\* alert.reset() on the cooldown-schema alert.
CooldownReset ==
    /\ calert' = cooldownReset(calert)
    /\ last' = Answer("reset", NoId, 0, FALSE, <<>>)
    /\ UNCHANGED <<now, alerts, probe, aux, services>>

(***************************************************************************)
(* The AlertMonitor singleton (part_005) on Node's event loop.  A cron     *)
(* callback is a macrotask: it starts only when no JavaScript is running   *)
(* and the microtask queue is empty.  checkAlerts contains no await, so    *)
(* its body runs to its end inside the macrotask that called it and what   *)
(* is left of the callback, the continuation of `await this.checkAlerts()`,*)
(* is one microtask.                                                       *)
(***************************************************************************)

\* constructor(): isRunning = false, cronJob = null; no check has run.
NewMonitor ==
    [isRunning |-> FALSE,   \* this.isRunning
     cronJob |-> Null,      \* this.cronJob: Null or the number of the job
     ticking |-> {},        \* the cron jobs that are started and not stopped
     jobs |-> 0,            \* the cron jobs scheduled so far
     started |-> 0,         \* the runs of checkAlerts begun so far
     completed |-> 0,       \* the runs of checkAlerts that reached their end
     microtasks |-> 0]      \* the callback continuations waiting to resume

\* The runs of checkAlerts that have begun and not reached their end.
inProgress(m) == m.started - m.completed

\* A variant of checkAlerts that suspends at an await: the run begins and
\* its end is left to a later turn of the event loop.
checkAlertsSuspends(m) ==
    [m EXCEPT !.started = @ + 1]

\* AlertMonitor.checkAlerts, called from the cron callback: the body logs,
\* awaits nothing and returns, and the callback's continuation is queued.
checkAlertsRun(m) ==
    [m EXCEPT !.started = @ + 1,
              !.completed = @ + 1,
              !.microtasks = @ + 1]

\* A variant of startMonitoring without the test of isRunning: every call
\* schedules and starts a job.
startMonitoringUnguarded ==
    /\ monitor.microtasks = 0
    /\ monitor.jobs < MaxJobs
    /\ monitor' = [monitor EXCEPT !.jobs = @ + 1,
                                  !.cronJob = monitor.jobs + 1,
                                  !.ticking = @ \cup {monitor.jobs + 1},
                                  !.isRunning = TRUE]
    /\ last' = Answer("startMonitoring", NoId, 0, FALSE, <<>>)
    /\ UNCHANGED <<now, alerts, calert, probe, batch, ind, services>>

\* AlertMonitor.startMonitoring
startMonitoring ==
    /\ monitor.microtasks = 0
    /\ IF monitor.isRunning
       THEN monitor' = monitor
       ELSE /\ monitor.jobs < MaxJobs
            /\ monitor' = [monitor EXCEPT !.jobs = @ + 1,
                                          !.cronJob = monitor.jobs + 1,
                                          !.ticking = @ \cup {monitor.jobs + 1},
                                          !.isRunning = TRUE]
    /\ last' = Answer("startMonitoring", NoId, 0, FALSE, <<>>)
    /\ UNCHANGED <<now, alerts, calert, probe, batch, ind, services>>

\* AlertMonitor.stopMonitoring
stopMonitoring ==
    /\ monitor.microtasks = 0
    /\ monitor' = IF monitor.cronJob # Null
                  THEN [monitor EXCEPT !.ticking = @ \ {monitor.cronJob},
                                       !.cronJob = Null,
                                       !.isRunning = FALSE]
                  ELSE [monitor EXCEPT !.isRunning = FALSE]
    /\ last' = Answer("stopMonitoring", NoId, 0, FALSE, <<>>)
    /\ UNCHANGED <<now, alerts, calert, probe, batch, ind, services>>

\* The callback of cron.schedule fires for a ticking job, at a later minute
\* than the last macrotask: async () => { await this.checkAlerts(); }
cronTick(job) ==
    /\ monitor.microtasks = 0
    /\ job \in monitor.ticking
    /\ monitor.started < MaxTicks
    /\ \E t \in Instants : t > now /\ now' = t
    /\ monitor' = checkAlertsRun(monitor)
    /\ last' = Answer("cronTick", NoId, 0, FALSE, <<>>)
    /\ UNCHANGED <<alerts, calert, probe, batch, ind, services>>

\* The continuation of the callback after its await: the callback returns.
callbackResume ==
    /\ monitor.microtasks > 0
    /\ monitor' = [monitor EXCEPT !.microtasks = @ - 1]
    /\ last' = Answer("callbackResume", NoId, 0, FALSE, <<>>)
    /\ UNCHANGED <<now, alerts, calert, probe, batch, ind, services>>

\* POST /api/admin/alert-monitor/check: the manually requested check.  The
\* handler answers 'checked' with triggered: false and calls no monitor.
adminCheck ==
    /\ monitor.microtasks = 0
    /\ last' = Answer("adminCheck", NoId, 200, FALSE, <<>>)
    /\ UNCHANGED <<now, alerts, calert, probe, aux, services>>

(***************************************************************************)
(* Batches of quote fetches: StockService.getMultipleQuotes of the server  *)
(* (stockService.js 164-175, over getQuote 18-70), getMultipleQuotes of    *)
(* the client (client stockService.js 102-115) and getMarketOverview       *)
(* (part_003 322-357).  The fetches of the first two run concurrently,     *)
(* one step per await; the third fetches one symbol after the other.       *)
(***************************************************************************)

Symbols == {"AAPL", "MSFT"}
\* const indices = ['SPY', 'QQQ', 'DIA', 'IWM']
Indices == <<"SPY", "QQQ", "DIA", "IWM">>
AllSymbols == Symbols \cup {Indices[i] : i \in DOMAIN Indices}
\* The external price-data sources.
Sources == {"finnhub", "alphavantage"}

\* The symbol lists handed to getMultipleQuotes: every list of at most
\* MaxBatch symbols, repeated symbols included.
SymbolLists == UNION {[1..n -> Symbols] : n \in 0..MaxBatch}

NoError == "null"
NoQuote == [symbol |-> "", price |-> Null, source |-> "none"]
Quote(symbol, source) == [symbol |-> symbol, price |-> 15000, source |-> source]

\* The entry of one symbol in the result of a batch.
Entry(symbol, quote, error) == [symbol |-> symbol, quote |-> quote, error |-> error]
Pending == Entry("", NoQuote, "pending")

\* A batch at its call: no fetch has started.
NewBatch(kind, symbols, cache) ==
    [kind |-> kind,
     symbols |-> symbols,
     pc |-> [i \in DOMAIN symbols |-> "start"],       \* where each fetch is
     fetched |-> [i \in DOMAIN symbols |-> "pending"], \* how each fetch ended
     entries |-> IF kind = "overview" THEN <<>>        \* marketData / the
                 ELSE [i \in DOMAIN symbols |-> Pending], \* promises' values
     calls |-> [c \in AllSymbols \X Sources |-> 0],  \* requests sent, by
                                    \* symbol and external source
     cache |-> cache,                       \* symbols with fresh StockData
     result |-> <<>>,
     returned |-> FALSE,
     raised |-> FALSE]

\* No batch is under way.
NoBatch == NewBatch("none", <<>>, {})

\* A variant of the catch of getMultipleQuotes that lets the error through:
\* Promise.all rejects and the batch raises.
getMultipleQuotesNoCatch(b, i, message) ==
    [b EXCEPT !.pc[i] = "done",
              !.fetched[i] = "failed",
              !.returned = TRUE,
              !.raised = TRUE]

\* catch (error) { return { symbol, quote: null, error: error.message } }
getMultipleQuotesCatch(b, i, message) ==
    [b EXCEPT !.pc[i] = "done",
              !.fetched[i] = "failed",
              !.entries[i] = Entry(b.symbols[i], NoQuote, message)]

\* return { symbol, quote, error: null }
getMultipleQuotesValue(b, i, quote) ==
    [b EXCEPT !.pc[i] = "done",
              !.fetched[i] = "ok",
              !.entries[i] = Entry(b.symbols[i], quote, NoError)]

Fetching(i, kind, at) ==
    /\ batch.kind = kind
    /\ ~batch.returned
    /\ i \in DOMAIN batch.symbols
    /\ batch.pc[i] = at

\* getQuote, first await: StockData.findOne for a cached quote of the last
\* five minutes; `dbOk` is false when the query throws.
cacheLookup(i, dbOk) ==
    /\ Fetching(i, "server", "start")
    /\ LET sym == batch.symbols[i]
       IN  batch' = IF ~dbOk
                    THEN getMultipleQuotesCatch(batch, i, "db error")
                    ELSE IF sym \in batch.cache
                    THEN getMultipleQuotesValue(batch, i, Quote(sym, "cache"))
                    ELSE [batch EXCEPT !.pc[i] = "finnhub"]
    /\ UNCHANGED <<now, alerts, last, calert, probe, monitor, ind, services>>

\* getQuote, the Finnhub request and its answer: a quote (saved to the
\* cache), an answer without a price, or a timeout; the last two fall back
\* to Alpha Vantage.
finnhubReply(i, outcome) ==
    /\ Fetching(i, "server", "finnhub")
    /\ LET sym == batch.symbols[i]
           called == [batch EXCEPT !.calls[<<sym, "finnhub">>] = @ + 1]
       IN  batch' = IF outcome = "ok"
                    THEN getMultipleQuotesValue(
                             [called EXCEPT !.cache = @ \cup {sym}],
                             i, Quote(sym, "finnhub"))
                    ELSE [called EXCEPT !.pc[i] = "alphavantage"]
    /\ UNCHANGED <<now, alerts, last, calert, probe, monitor, ind, services>>

\* getQuote, the Alpha Vantage request and its answer; without a price, or
\* on a timeout, getQuote throws.
alphaVantageReply(i, outcome) ==
    /\ Fetching(i, "server", "alphavantage")
    /\ LET sym == batch.symbols[i]
           called == [batch EXCEPT !.calls[<<sym, "alphavantage">>] = @ + 1]
       IN  batch' = IF outcome = "ok"
                    THEN getMultipleQuotesValue(
                             [called EXCEPT !.cache = @ \cup {sym}],
                             i, Quote(sym, "alpha_vantage_fallback"))
                    ELSE getMultipleQuotesCatch(called, i,
                             IF outcome = "nodata" THEN "No data found"
                             ELSE "timeout")
    /\ UNCHANGED <<now, alerts, last, calert, probe, monitor, ind, services>>

\* The client's getQuote: one request to the backend; a failure is mapped
\* by handleError to an Error with a message, and Promise.allSettled keeps
\* it as a rejection that the result's map turns into an error entry.
clientReply(i, outcome) ==
    /\ Fetching(i, "client", "start")
    /\ batch' = IF outcome = "ok"
                THEN getMultipleQuotesValue(batch, i,
                         Quote(batch.symbols[i], "backend"))
                ELSE [batch EXCEPT !.pc[i] = "done",
                                   !.fetched[i] = "failed",
                                   !.entries[i] = Entry(batch.symbols[i], NoQuote,
                                                        "Network error")]
    /\ UNCHANGED <<now, alerts, last, calert, probe, monitor, ind, services>>

\* getMarketOverview, one turn of its for loop: the Alpha Vantage request
\* for the next index; a quote is pushed to marketData, an answer without a
\* price is skipped and an error is caught and logged.
overviewReply(outcome) ==
    /\ batch.kind = "overview"
    /\ ~batch.returned
    /\ \E i \in DOMAIN batch.symbols :
           /\ batch.pc[i] = "start"
           /\ \A j \in 1..(i - 1) : batch.pc[j] = "done"
           /\ LET sym == batch.symbols[i]
                  called == [batch EXCEPT !.calls[<<sym, "alphavantage">>] = @ + 1,
                                          !.pc[i] = "done",
                                          !.fetched[i] = IF outcome = "ok" THEN "ok"
                                                         ELSE "failed"]
              IN  batch' = IF outcome = "ok"
                           THEN [called EXCEPT !.entries =
                                    Append(@, Entry(sym, Quote(sym, "alpha_vantage"),
                                                    NoError))]
                           ELSE called
    /\ UNCHANGED <<now, alerts, last, calert, probe, monitor, ind, services>>

\* The batch returns once every fetch has settled: Promise.all /
\* Promise.allSettled resolve in request order, res.json sends marketData.
batchReturn ==
    /\ batch.kind # "none"
    /\ ~batch.returned
    /\ \A i \in DOMAIN batch.symbols : batch.pc[i] = "done"
    /\ batch' = [batch EXCEPT !.result = batch.entries, !.returned = TRUE]
    /\ UNCHANGED <<now, alerts, last, calert, probe, monitor, ind, services>>

(***************************************************************************)
(* On-demand evaluation: POST /api/alerts/:id/test and a direct call of    *)
(* shouldTrigger on an alert document.                                     *)
(***************************************************************************)

\* testAlert: `metric` is quote.price for a price alert and the indicator
\* value (Null when the indicator has insufficient data) for a technical one.
testAlertCode(body) ==
    IF body.alertType = NoString \/ body.condition = NoString
       \/ Falsy(body.targetValue) THEN 400
    ELSE IF body.alertType = "technical"
            /\ body.indicatorType \notin {"rsi", "sma", "ema"} THEN 400
    ELSE 200

testAlertDecision(body, metric) ==
    IF testAlertCode(body) # 200 THEN FALSE
    ELSE IF body.alertType = "price"
    THEN evaluateCondition(metric, body.condition, body.targetValue)
    ELSE IF body.alertType = "technical"
    THEN IF metric # Null
         THEN evaluateCondition(metric, body.condition, body.targetValue)
         ELSE FALSE
    ELSE FALSE

\* A variant of testAlert that loads the stored alerts and stamps their
\* lastChecked.
testAlertStampsCheck ==
    /\ last' = [Answer("test", NoId, testAlertCode(probe.alert),
                       testAlertDecision(probe.alert, probe.currentValue), <<>>)
                   EXCEPT !.args = <<probe.currentValue>>]
    /\ alerts' = [id \in DOMAIN alerts |-> [alerts[id] EXCEPT !.lastChecked = now]]
    /\ UNCHANGED <<now, calert, probe, aux, services>>

testAlert ==
    /\ last' = [Answer("test", NoId, testAlertCode(probe.alert),
                       testAlertDecision(probe.alert, probe.currentValue), <<>>)
                   EXCEPT !.args = <<probe.currentValue>>]
    /\ UNCHANGED <<now, alerts, calert, probe, aux, services>>

\* alert.shouldTrigger(currentValue) / alert.shouldTrigger(currentValue,
\* previousValue) on the probed document.
CallShouldTrigger ==
    /\ last' = [Answer("shouldTrigger", NoId, 0,
                       shouldTrigger(probe.alert, probe.currentValue,
                                     probe.previousValue, now), <<>>)
                   EXCEPT !.args = <<probe.currentValue, probe.previousValue>>]
    /\ UNCHANGED <<now, alerts, calert, probe, aux, services>>

\* stored.shouldTrigger(currentValue, previousValue) on a stored alert, with
\* the probe's samples.
CallShouldTriggerOn(id) ==
    /\ id \in DOMAIN alerts
    /\ last' = [Answer("shouldTrigger", id, 0,
                       shouldTrigger(alerts[id], probe.currentValue,
                                     probe.previousValue, now), <<>>)
                   EXCEPT !.args = <<probe.currentValue, probe.previousValue>>]
    /\ UNCHANGED <<now, alerts, calert, probe, aux, services>>

\* The alert documents and samples an on-demand evaluation is run on.
ProbeAlerts ==
    [alertType : {"price", "technical"},
     indicatorType : {"rsi", "macd"},
     condition : Conditions \cup {"unknown"},
     targetValue : Targets,
     isActive : BOOLEAN,
     triggered : BOOLEAN,
     expiresAt : {Null, 0, 30}]

Probes ==
    [alert : ProbeAlerts,
     currentValue : Values \cup {Null},
     previousValue : Values \cup {Null}]

NoProbe ==
    [alert |-> [alertType |-> "price", indicatorType |-> "rsi",
                condition |-> "above", targetValue |-> 15000,
                isActive |-> TRUE, triggered |-> FALSE, expiresAt |-> Null],
     currentValue |-> Null, previousValue |-> Null]

(***************************************************************************)
(* TechnicalIndicators (part_003 lines 10-93; StockService carries the     *)
(* same calculateSMA / calculateEMA / calculateRSI, stockService.js        *)
(* 208-244).  Prices and results are whole numbers of hundredths and every *)
(* division rounds down to a hundredth; null is Null.                      *)
(***************************************************************************)

\* The prices of a series, in hundredths: 0.00, 1.00 and 2.00.
Prices == {0, 100, 200}
PriceSeries == UNION {[1..n -> Prices] : n \in 0..MaxLen}
\* The series 1, 2, 3, 4, 5 of the indicator library's worked example.
ExampleSeries == <<100, 200, 300, 400, 500>>

\* prices.reduce((acc, price) => acc + price, 0)
RECURSIVE Sum(_)
Sum(seq) == IF seq = <<>> THEN 0 ELSE Head(seq) + Sum(Tail(seq))

\* prices.slice(-n) for 1 <= n: the last n items, all of them when n
\* exceeds the length.
LastN(seq, n) ==
    IF n >= Len(seq) THEN seq ELSE SubSeq(seq, Len(seq) - n + 1, Len(seq))

\* prices.slice(0, n)
FirstN(seq, n) == IF n >= Len(seq) THEN seq ELSE SubSeq(seq, 1, n)

\* Math.sqrt, rounded down to a whole number.
Sqrt(x) == CHOOSE r \in 0..x : r * r <= x /\ (r + 1) * (r + 1) > x

\* A variant of calculateSMA without the length guard.
calculateSMANoGuard(prices, period) ==
    Sum(LastN(prices, period)) \div period

\* A variant of calculateSMA that averages the first `period` prices.
calculateSMAOfFirst(prices, period) ==
    IF Len(prices) < period THEN Null
    ELSE Sum(FirstN(prices, period)) \div period

\* TechnicalIndicators.calculateSMA(prices, period)
calculateSMA(prices, period) ==
    IF Len(prices) < period THEN Null
    ELSE Sum(LastN(prices, period)) \div period

\* The loop of calculateEMA from index i (1-based) on.
RECURSIVE EMALoop(_, _, _, _)
EMALoop(prices, period, i, ema) ==
    IF i > Len(prices) THEN ema
    ELSE EMALoop(prices, period, i + 1,
                 ((prices[i] - ema) * 2) \div (period + 1) + ema)

\* TechnicalIndicators.calculateEMA(prices, period)
calculateEMA(prices, period) ==
    IF Len(prices) < period THEN Null
    ELSE EMALoop(prices, period, period + 1,
                 Sum(FirstN(prices, period)) \div period)

\* The gains and the losses of calculateRSI: one of each per pair of
\* neighbouring prices.
Gains(prices) ==
    [i \in 1..(Len(prices) - 1) |->
        IF prices[i + 1] - prices[i] > 0 THEN prices[i + 1] - prices[i] ELSE 0]
Losses(prices) ==
    [i \in 1..(Len(prices) - 1) |->
        IF prices[i + 1] - prices[i] < 0 THEN Abs(prices[i + 1] - prices[i]) ELSE 0]

\* A variant of calculateRSI that averages the gains and losses of the whole
\* series instead of the last `period` of them.
calculateRSIWholeSeries(prices, period) ==
    IF Len(prices) < period + 1 THEN Null
    ELSE LET gain == Sum(Gains(prices))
             loss == Sum(Losses(prices))
         IN  IF loss = 0 THEN RSIMax
             ELSE RSIMax - (RSIMax * loss) \div (gain + loss)

\* TechnicalIndicators.calculateRSI(prices, period).  avgGain / avgLoss is
\* taken as the quotient of the two sums, which the common division by
\* period leaves unchanged: 100 - 100 / (1 + rs) = 100 - 100 * loss / (gain + loss).
calculateRSI(prices, period) ==
    IF Len(prices) < period + 1 THEN Null
    ELSE IF Len(Gains(prices)) < period THEN Null
    ELSE LET gain == Sum(LastN(Gains(prices), period))
             loss == Sum(LastN(Losses(prices), period))
         IN  IF loss = 0 THEN RSIMax
             ELSE RSIMax - (RSIMax * loss) \div (gain + loss)

\* The bands calculateBollingerBands returns; NoBands stands for its null.
Bands(upper, middle, lower) == [upper |-> upper, middle |-> middle, lower |-> lower]
NoBands == Bands(Null, Null, Null)

\* The variance of calculateBollingerBands: the mean of the squared
\* deviations of the last `period` prices from sma.
Variance(prices, period, sma) ==
    LET recent == LastN(prices, period)
    IN  Sum([i \in DOMAIN recent |-> (recent[i] - sma) * (recent[i] - sma)])
            \div period

\* TechnicalIndicators.calculateBollingerBands(prices, period, multiplier);
\* `if (!sma) return null` takes a mean of 0 for a missing one.
calculateBollingerBands(prices, period, multiplier) ==
    IF Len(prices) < period THEN NoBands
    ELSE LET sma == calculateSMA(prices, period)
         IN  IF Falsy(sma) THEN NoBands
             ELSE LET stdDev == Sqrt(Variance(prices, period, sma))
                  IN  Bands(sma + multiplier * stdDev, sma, sma - multiplier * stdDev)

\* What calculateMACD of TechnicalIndicators returns: { macd, signal: null,
\* histogram: null }, or null (isNull).
MACD(macdLine) ==
    [isNull |-> FALSE, macd |-> macdLine, signal |-> Null, histogram |-> Null]
NoMACD == [isNull |-> TRUE, macd |-> 0, signal |-> Null, histogram |-> Null]

\* TechnicalIndicators.calculateMACD(prices, fastPeriod, slowPeriod); the
\* source's defaults are 12 and 26.  `!ema12 || !ema26` takes an average of
\* 0 for a missing one.
calculateMACD(prices, fastPeriod, slowPeriod) ==
    IF Len(prices) < slowPeriod THEN NoMACD
    ELSE LET ema12 == calculateEMA(prices, fastPeriod)
             ema26 == calculateEMA(prices, slowPeriod)
         IN  IF Falsy(ema12) \/ Falsy(ema26) THEN NoMACD
             ELSE MACD(ema12 - ema26)

(***************************************************************************)
(* The indicator functions of StockService (stockService.js 207-259), the  *)
(* copy the monitoring path uses.                                          *)
(***************************************************************************)

\* StockService.calculateSMA(prices, period)
serviceCalculateSMA(prices, period) ==
    IF Len(prices) < period THEN Null
    ELSE Sum(LastN(prices, period)) \div period

\* The loop of StockService.calculateEMA from index i (1-based) on.
RECURSIVE serviceEMALoop(_, _, _, _)
serviceEMALoop(prices, period, i, ema) ==
    IF i > Len(prices) THEN ema
    ELSE serviceEMALoop(prices, period, i + 1,
                        ((prices[i] - ema) * 2) \div (period + 1) + ema)

\* A variant of StockService.calculateEMA that seeds the average with the
\* last `period` prices instead of the first.
serviceCalculateEMASeedsLast(prices, period) ==
    IF Len(prices) < period THEN Null
    ELSE serviceEMALoop(prices, period, period + 1,
                        Sum(LastN(prices, period)) \div period)

\* StockService.calculateEMA(prices, period)
serviceCalculateEMA(prices, period) ==
    IF Len(prices) < period THEN Null
    ELSE serviceEMALoop(prices, period, period + 1,
                        Sum(FirstN(prices, period)) \div period)

\* StockService.calculateRSI(prices, period)
serviceCalculateRSI(prices, period) ==
    IF Len(prices) < period + 1 THEN Null
    ELSE IF Len(Gains(prices)) < period THEN Null
    ELSE LET gain == Sum(LastN(Gains(prices), period))
             loss == Sum(LastN(Losses(prices), period))
         IN  IF loss = 0 THEN RSIMax
             ELSE RSIMax - (RSIMax * loss) \div (gain + loss)

\* What calculateMACD of StockService returns: the MACD line as a number, or
\* null (isNull).
Line(value) == [isNull |-> FALSE, value |-> value]
NoLine == [isNull |-> TRUE, value |-> 0]

\* StockService.calculateMACD(prices, fastPeriod, slowPeriod)
serviceCalculateMACD(prices, fastPeriod, slowPeriod) ==
    IF Len(prices) < slowPeriod THEN NoLine
    ELSE LET ema12 == serviceCalculateEMA(prices, fastPeriod)
             ema26 == serviceCalculateEMA(prices, slowPeriod)
         IN  IF Falsy(ema12) \/ Falsy(ema26) THEN NoLine
             ELSE Line(ema12 - ema26)

\* One call of an indicator function: its arguments and what it returned
\* (value for calculateSMA / EMA / RSI, bands for calculateBollingerBands).
Call(fn, prices, period, value, bands) ==
    [fn |-> fn, prices |-> prices, period |-> period,
     value |-> value, bands |-> bands]

\* No indicator function has been called.
NoCall == Call("none", <<>>, 1, Null, NoBands)

callSMA ==
    /\ ind' = Call("sma", ind.prices, ind.period,
                   calculateSMA(ind.prices, ind.period), NoBands)
    /\ UNCHANGED <<now, alerts, last, calert, probe, monitor, batch, services>>

callEMA ==
    /\ ind' = Call("ema", ind.prices, ind.period,
                   calculateEMA(ind.prices, ind.period), NoBands)
    /\ UNCHANGED <<now, alerts, last, calert, probe, monitor, batch, services>>

callRSI ==
    /\ ind' = Call("rsi", ind.prices, ind.period,
                   calculateRSI(ind.prices, ind.period), NoBands)
    /\ UNCHANGED <<now, alerts, last, calert, probe, monitor, batch, services>>

\* One call of calculateMACD: the slow period is the call's period.
MACDCall(fn, prices, fastPeriod, slowPeriod, macd) ==
    [fn |-> fn, prices |-> prices, period |-> slowPeriod, fast |-> fastPeriod,
     value |-> Null, bands |-> NoBands, macd |-> macd]

callMACD(fastPeriod) ==
    /\ ind' = MACDCall("macd", ind.prices, fastPeriod, ind.period,
                       calculateMACD(ind.prices, fastPeriod, ind.period))
    /\ UNCHANGED <<now, alerts, last, calert, probe, monitor, batch, services>>

callServiceSMA ==
    /\ ind' = Call("service.sma", ind.prices, ind.period,
                   serviceCalculateSMA(ind.prices, ind.period), NoBands)
    /\ UNCHANGED <<now, alerts, last, calert, probe, monitor, batch, services>>

callServiceEMA ==
    /\ ind' = Call("service.ema", ind.prices, ind.period,
                   serviceCalculateEMA(ind.prices, ind.period), NoBands)
    /\ UNCHANGED <<now, alerts, last, calert, probe, monitor, batch, services>>

callServiceRSI ==
    /\ ind' = Call("service.rsi", ind.prices, ind.period,
                   serviceCalculateRSI(ind.prices, ind.period), NoBands)
    /\ UNCHANGED <<now, alerts, last, calert, probe, monitor, batch, services>>

callServiceMACD(fastPeriod) ==
    /\ ind' = MACDCall("service.macd", ind.prices, fastPeriod, ind.period,
                       serviceCalculateMACD(ind.prices, fastPeriod, ind.period))
    /\ UNCHANGED <<now, alerts, last, calert, probe, monitor, batch, services>>

callBollingerBands ==
    /\ ind' = Call("bollinger", ind.prices, ind.period, Null,
                   calculateBollingerBands(ind.prices, ind.period,
                                           BollingerMultiplier))
    /\ UNCHANGED <<now, alerts, last, calert, probe, monitor, batch, services>>

(***************************************************************************)
(* The quote cache: StockService.getQuote (stockService.js 18-115) and     *)
(* getStockQuote (part_003 98-166) over the StockData collection.  Time   *)
(* is in minutes.                                                          *)
(***************************************************************************)

\* The age up to which getQuote takes a StockData record for the quote.
MonitorFreshness == 5
\* The age up to which getStockQuote does.
DashboardFreshness == 1

CacheTimes == 0..MaxCacheNow

\* A StockData document as far as the cache lookup reads it.
StockRecord(symbol, timestamp) == [symbol |-> symbol, timestamp |-> timestamp]

\* The paths the StockData schema requires of a document.
RequiredPaths ==
    {"symbol", "companyName", "price.current", "price.open", "price.high",
     "price.low", "price.previousClose", "price.change",
     "price.changePercent", "volume.current", "timestamp", "source"}

\* The paths of the object getQuote hands to StockData.create, and of the
\* one getStockQuote does.
QuotePaths ==
    {"symbol", "price", "change", "changePercent", "volume", "timestamp",
     "source"}
DashboardQuotePaths == QuotePaths \ {"source"}

\* StockData.create(doc) resolves when the document has every required
\* path, and rejects with a ValidationError otherwise.
validates(paths) == RequiredPaths \subseteq paths

\* The latest timestamp among records, or null when there is none.
Latest(found) ==
    IF found = {} THEN Null
    ELSE CHOOSE t \in {r.timestamp : r \in found} :
             \A r \in found : r.timestamp <= t

\* A variant of findOne that leaves the timestamp out of the filter.
findOneOfAnyAge(records, symbol, since) ==
    Latest({r \in records : r.symbol = symbol})

\* StockData.findOne({symbol, timestamp: {$gte: since}}).sort({timestamp:
\* -1}): the timestamp of the record found, or null.
findOne(records, symbol, since) ==
    Latest({r \in records : r.symbol = symbol /\ r.timestamp >= since})

\* The StockData collection and the answer to the last quote request: the
\* path and symbol asked, when, the status, the source and timestamp of the
\* quote returned, and whether a provider was asked.
QuoteAnswer(records, path, symbol, at, code, source, timestamp, fetched) ==
    [records |-> records, path |-> path, symbol |-> symbol, at |-> at,
     code |-> code, source |-> source, timestamp |-> timestamp,
     fetched |-> fetched]

\* An empty StockData collection and no quote request answered.
NoStockData == QuoteAnswer({}, "none", "", Null, 0, "none", Null, FALSE)

\* StockService.getQuote(symbol): the cached record when one is fresh,
\* else Finnhub (whose quote carries the provider's time t), else Alpha
\* Vantage; each quote is stored before it is returned, and a rejection of
\* the store after Finnhub is caught like a failure of Finnhub.  Code 500
\* stands for the error getQuote throws.
getQuote(symbol, finnhub, t, alphaVantage) ==
    LET records == stockData.records
        cached == findOne(records, symbol, now - MonitorFreshness)
        viaFinnhub == finnhub = "ok" /\ validates(QuotePaths)
        viaAlphaVantage ==
            ~viaFinnhub /\ alphaVantage = "ok" /\ validates(QuotePaths)
    IN  /\ stockData' =
               IF cached # Null
               THEN QuoteAnswer(records, "monitor", symbol, now, 200,
                                "cache", cached, FALSE)
               ELSE IF viaFinnhub
               THEN QuoteAnswer(records \cup {StockRecord(symbol, t)},
                                "monitor", symbol, now, 200, "finnhub", t,
                                TRUE)
               ELSE IF viaAlphaVantage
               THEN QuoteAnswer(records \cup {StockRecord(symbol, now)},
                                "monitor", symbol, now, 200,
                                "alpha_vantage_fallback", now, TRUE)
               ELSE QuoteAnswer(records, "monitor", symbol, now, 500, "none",
                                Null, TRUE)
        /\ UNCHANGED <<now, alerts, last, calert, probe, aux, user,
                       userRequests>>

\* getStockQuote (GET /stocks/quote/:symbol): the cached record when one is
\* fresh, else Alpha Vantage; 404 without a price, 408 on a timeout, 500 on
\* any other error, a rejected store included.
getStockQuote(symbol, alphaVantage) ==
    LET records == stockData.records
        cached == findOne(records, symbol, now - DashboardFreshness)
    IN  /\ stockData' =
               IF cached # Null
               THEN QuoteAnswer(records, "dashboard", symbol, now, 200,
                                "cache", cached, FALSE)
               ELSE IF alphaVantage = "timeout"
               THEN QuoteAnswer(records, "dashboard", symbol, now, 408,
                                "none", Null, TRUE)
               ELSE IF alphaVantage = "error"
               THEN QuoteAnswer(records, "dashboard", symbol, now, 500,
                                "none", Null, TRUE)
               ELSE IF alphaVantage = "no price"
               THEN QuoteAnswer(records, "dashboard", symbol, now, 404,
                                "none", Null, TRUE)
               ELSE IF validates(DashboardQuotePaths)
               THEN QuoteAnswer(records \cup {StockRecord(symbol, now)},
                                "dashboard", symbol, now, 200, "api", now,
                                TRUE)
               ELSE QuoteAnswer(records, "dashboard", symbol, now, 500,
                                "none", Null, TRUE)
        /\ UNCHANGED <<now, alerts, last, calert, probe, aux, user,
                       userRequests>>

\* A minute passes on the server's clock.
Elapse ==
    /\ now < MaxCacheNow
    /\ now' = now + 1
    /\ UNCHANGED <<alerts, last, calert, probe, aux, services>>

\* The collections of at most two records stored up to the minute t.
Stores(t) ==
    LET stored == {StockRecord(symbol, timestamp) :
                       symbol \in Symbols, timestamp \in 0..t}
    IN  {{}} \cup {{a, b} : a \in stored, b \in stored}

(***************************************************************************)
(* Account lockout: the User document's loginAttempts and lockUntil        *)
(* (User.js 77-150) and authenticateToken (auth.js 43-92).  A document     *)
(* method runs on a loaded copy of the stored document and writes the      *)
(* stored one with updateOne.  Time is in minutes.                         *)
(***************************************************************************)

\* The failed attempts that lock the account, and for how long.
LockThreshold == 5
LockDuration == 120

\* The requests that may hold a loaded User document at the same time.
Requests == {"r1", "r2"}

LockTimes == {0, 1} \cup (LockDuration..MaxLockNow)

\* The two fields of a User document that the lockout reads and writes.
Document(loginAttempts, lockUntil) ==
    [loginAttempts |-> loginAttempts, lockUntil |-> lockUntil]
\* No document loaded.
NoDocument == Document(Null, Null)

\* The stored User document, the copies loaded by the requests in flight,
\* and the last operation: its name, when it ran, the status it answered,
\* and whether the stored lock had expired when it ran.
UserState(loginAttempts, lockUntil, loaded, op, at, code, expired) ==
    [loginAttempts |-> loginAttempts, lockUntil |-> lockUntil,
     loaded |-> loaded, op |-> op, at |-> at, code |-> code,
     expired |-> expired]

\* A User document as the schema's defaults make it: loginAttempts 0,
\* lockUntil null; no request in flight.
NewUser ==
    UserState(0, Null, [r \in Requests |-> NoDocument], "init", Null, 0, FALSE)

\* The virtual isLocked of a document at the time t.
isLocked(doc, t) == doc.lockUntil # Null /\ doc.lockUntil > t

\* A request loads the User document (User.findOne / findById).
findUser(r) ==
    /\ user.loaded[r] = NoDocument
    /\ user' = [user EXCEPT
                   !.loaded[r] = Document(user.loginAttempts, user.lockUntil),
                   !.op = "find", !.at = now, !.code = 0, !.expired = FALSE]
    /\ UNCHANGED <<now, alerts, last, calert, probe, aux, stockData,
                   userRequests>>

\* incLoginAttempts on the document the request r loaded: the tests read
\* the loaded copy, updateOne writes the stored document ($inc adds to the
\* stored count).
incLoginAttempts(r) ==
    LET this == user.loaded[r]
        restart == this.lockUntil # Null /\ this.lockUntil < now
        lock == this.loginAttempts + 1 >= LockThreshold /\ ~isLocked(this, now)
    IN  /\ this # NoDocument
        /\ user.loginAttempts < MaxAttempts
        /\ user' = [user EXCEPT
                       !.loginAttempts =
                           IF restart THEN 1 ELSE user.loginAttempts + 1,
                       !.lockUntil =
                           IF restart THEN Null
                           ELSE IF lock THEN now + LockDuration
                           ELSE user.lockUntil,
                       !.loaded[r] = NoDocument,
                       !.op = "incLoginAttempts", !.at = now, !.code = 0,
                       !.expired =
                           user.lockUntil # Null /\ user.lockUntil < now]
        /\ UNCHANGED <<now, alerts, last, calert, probe, aux, stockData,
                       userRequests>>

\* resetLoginAttempts on the document the request r loaded: both fields
\* are unset, and read as their defaults from then on.
resetLoginAttempts(r) ==
    /\ user.loaded[r] # NoDocument
    /\ user' = [user EXCEPT
                   !.loginAttempts = 0, !.lockUntil = Null,
                   !.loaded[r] = NoDocument,
                   !.op = "resetLoginAttempts", !.at = now, !.code = 0,
                   !.expired = FALSE]
    /\ UNCHANGED <<now, alerts, last, calert, probe, aux, stockData,
                   userRequests>>

\* authenticateToken for a request of the user: 401 without a token or
\* with an invalid one, 423 when the document it loads is locked, else the
\* request goes on (200).
authenticateToken(token) ==
    /\ user' = [user EXCEPT
                   !.op = "authenticateToken", !.at = now,
                   !.code = IF token # "valid" THEN 401
                            ELSE IF isLocked(user, now) THEN 423
                            ELSE 200,
                   !.expired = FALSE]
    /\ UNCHANGED <<now, alerts, last, calert, probe, aux, stockData,
                   userRequests>>

\* Time passes on the server's clock.
Pass ==
    /\ \E t \in LockTimes : t > now /\ now' = t
    /\ UNCHANGED <<alerts, last, calert, probe, aux, services>>

(***************************************************************************)
(* rateLimitByUser(maxRequests, windowMs) (auth.js 168-201): the           *)
(* middleware and the Map userRequests of its closure.  Time is in         *)
(* minutes.                                                                *)
(***************************************************************************)

\* windowMs, by default 15 minutes.
WindowDefault == 15

RateTimes == {0, 1} \cup (WindowDefault..MaxRateNow)

\* A request without req.user.
Anonymous == "anonymous"

\* An entry of userRequests: { count, resetTime }
RateEntry(count, resetTime) == [count |-> count, resetTime |-> resetTime]

\* A variant of the test of the limit that admits one request more.
overLimitStrict(userLimit) == userLimit.count > MaxRequests

\* userLimit.count >= maxRequests
overLimit(userLimit) == userLimit.count >= MaxRequests

\* What the middleware answers to the requester: 429, or 200 for next().
RateAnswer(u, code) ==
    [Answer("rateLimitByUser", NoId, code, FALSE, <<>>) EXCEPT !.args = <<u>>]

\* The middleware returned by rateLimitByUser, on a request of u.
rateLimitByUser(u) ==
    /\ IF u = Anonymous
       THEN /\ userRequests' = userRequests
            /\ last' = RateAnswer(u, 200)
       ELSE IF u \notin DOMAIN userRequests
       THEN /\ userRequests' =
                   userRequests @@ (u :> RateEntry(1, now + WindowDefault))
            /\ last' = RateAnswer(u, 200)
       ELSE IF now > userRequests[u].resetTime
       THEN /\ userRequests' =
                   [userRequests EXCEPT
                       ![u] = RateEntry(1, now + WindowDefault)]
            /\ last' = RateAnswer(u, 200)
       ELSE IF overLimit(userRequests[u])
       THEN /\ userRequests' = userRequests
            /\ last' = RateAnswer(u, 429)
       ELSE /\ userRequests' = [userRequests EXCEPT ![u].count = @ + 1]
            /\ last' = RateAnswer(u, 200)
    /\ UNCHANGED <<now, alerts, calert, probe, aux, stockData, user>>

\* Time passes between two requests.
Wait ==
    /\ \E t \in RateTimes : t > now /\ now' = t
    /\ UNCHANGED <<alerts, last, calert, probe, aux, services>>

(***************************************************************************)
(* Specifications.                                                         *)
(***************************************************************************)

\* The alert store, its controller and the engine steps.
Init ==
    /\ now = 0
    /\ alerts = <<>>
    /\ last = Answer("init", NoId, 0, FALSE, <<>>)
    /\ calert = NewCooldownAlert(TRUE, CooldownDefault)
    /\ probe = NoProbe
    /\ monitor = NewMonitor
    /\ batch = NoBatch
    /\ ind = NoCall
    /\ stockData = NoStockData
    /\ user = NewUser
    /\ userRequests = <<>>

Next ==
    \/ \E u \in Users, body \in CreateBodies : createAlert(u, body)
    \/ \E u \in Users, id \in AlertIds, b \in BOOLEAN :
           updateAlert(u, id, "isActive", b)
    \/ \E u \in Users, id \in AlertIds, b \in BOOLEAN :
           updateAlert(u, id, "triggered", b)
    \/ \E u \in Users, id \in AlertIds, ty \in {"price", "technical", "bogus"} :
           updateAlert(u, id, "alertType", ty)
    \/ \E u \in Users, id \in AlertIds, e \in {Null, MaxNow} :
           updateAlert(u, id, "expiresAt", e)
    \/ \E u \in Users, id \in AlertIds : updateAlert(u, id, "triggerCount", 0)
    \/ \E u \in Users, id \in AlertIds : deleteAlert(u, id)
    \/ \E u \in Users, id \in AlertIds : toggleAlert(u, id)
    \/ \E id \in AlertIds : ttlExpire(id)
    \/ \E id \in AlertIds, c \in {20000, 30000}, p \in {Null, 20000} :
           EvaluateAlert(id, c, p)
    \/ \E id \in AlertIds : ResetAlert(id)
    \/ RunTick
    \/ checkAlerts
    \/ Advance

Spec == Init /\ [][Next]_vars

\* One alert of the cooldown schema, evaluated as time passes.
CooldownInit ==
    /\ now = 0
    /\ alerts = <<>>
    /\ last = Answer("init", NoId, 0, FALSE, <<>>)
    /\ \E active \in BOOLEAN, period \in {30, CooldownDefault} :
           calert = NewCooldownAlert(active, period)
    /\ probe = NoProbe
    /\ monitor = NewMonitor
    /\ batch = NoBatch
    /\ ind = NoCall
    /\ stockData = NoStockData
    /\ user = NewUser
    /\ userRequests = <<>>

CooldownNext ==
    \/ \E satisfied \in BOOLEAN : CooldownEvaluate(satisfied)
    \/ CooldownReset
    \/ Advance

CooldownSpec == CooldownInit /\ [][CooldownNext]_vars

\* On-demand evaluations of every probed alert and sample.
EvalInit ==
    /\ now = 1
    /\ alerts = <<>>
    /\ last = Answer("init", NoId, 0, FALSE, <<>>)
    /\ calert = NewCooldownAlert(TRUE, CooldownDefault)
    /\ probe \in Probes
    /\ monitor = NewMonitor
    /\ batch = NoBatch
    /\ ind = NoCall
    /\ stockData = NoStockData
    /\ user = NewUser
    /\ userRequests = <<>>

EvalNext ==
    \/ testAlert
    \/ CallShouldTrigger

EvalSpec == EvalInit /\ [][EvalNext]_vars

\* The monitor: its cron job started and stopped, its ticks and the manual
\* check, as time passes.
MonitorInit ==
    /\ now = 0
    /\ alerts = <<>>
    /\ last = Answer("init", NoId, 0, FALSE, <<>>)
    /\ calert = NewCooldownAlert(TRUE, CooldownDefault)
    /\ probe = NoProbe
    /\ monitor = NewMonitor
    /\ batch = NoBatch
    /\ ind = NoCall
    /\ stockData = NoStockData
    /\ user = NewUser
    /\ userRequests = <<>>

MonitorNext ==
    \/ startMonitoring
    \/ stopMonitoring
    \/ \E job \in 1..MaxJobs : cronTick(job)
    \/ callbackResume
    \/ adminCheck

MonitorSpec == MonitorInit /\ [][MonitorNext]_vars

\* One batch of quote fetches, from its call to its return.
BatchInit ==
    /\ now = 0
    /\ alerts = <<>>
    /\ last = Answer("init", NoId, 0, FALSE, <<>>)
    /\ calert = NewCooldownAlert(TRUE, CooldownDefault)
    /\ probe = NoProbe
    /\ monitor = NewMonitor
    /\ \/ \E symbols \in SymbolLists, cache \in SUBSET Symbols :
              batch = NewBatch("server", symbols, cache)
       \/ \E symbols \in SymbolLists : batch = NewBatch("client", symbols, {})
       \/ batch = NewBatch("overview", Indices, {})
    /\ ind = NoCall
    /\ stockData = NoStockData
    /\ user = NewUser
    /\ userRequests = <<>>

BatchNext ==
    \/ \E i \in 1..MaxBatch, dbOk \in BOOLEAN : cacheLookup(i, dbOk)
    \/ \E i \in 1..MaxBatch, outcome \in {"ok", "nodata", "timeout"} :
           finnhubReply(i, outcome)
    \/ \E i \in 1..MaxBatch, outcome \in {"ok", "nodata", "timeout"} :
           alphaVantageReply(i, outcome)
    \/ \E i \in 1..MaxBatch, outcome \in {"ok", "timeout"} : clientReply(i, outcome)
    \/ \E outcome \in {"ok", "nodata", "timeout"} : overviewReply(outcome)
    \/ batchReturn

BatchSpec == BatchInit /\ [][BatchNext]_vars

\* The stores a test request meets: empty, or holding one alert as
\* createAlert stored it, triggered since or not.
TestStores ==
    {<<>>}
    \cup {1 :> NewAlert("u1", body) : body \in {b \in CreateBodies : createCode(b) = 201}}
    \cup {1 :> trigger(NewAlert("u1", body), 0) :
              body \in {b \in CreateBodies : createCode(b) = 201}}

\* The test requests sent against those stores.
TestProbes ==
    {pr \in Probes :
        /\ pr.alert.indicatorType = "rsi"
        /\ pr.alert.condition \in {"above", "below"}
        /\ pr.alert.targetValue = 15000
        /\ pr.alert.isActive /\ ~pr.alert.triggered
        /\ pr.alert.expiresAt = Null
        /\ pr.currentValue \in {10000, 20000, Null}
        /\ pr.previousValue = Null}

\* On-demand evaluations against a store that holds alerts.
TestInit ==
    /\ now = 1
    /\ alerts \in TestStores
    /\ last = Answer("init", NoId, 0, FALSE, <<>>)
    /\ calert = NewCooldownAlert(TRUE, CooldownDefault)
    /\ probe \in TestProbes
    /\ monitor = NewMonitor
    /\ batch = NoBatch
    /\ ind = NoCall
    /\ stockData = NoStockData
    /\ user = NewUser
    /\ userRequests = <<>>

TestNext ==
    \/ testAlert
    \/ CallShouldTrigger
    \/ \E id \in AlertIds : CallShouldTriggerOn(id)

TestSpec == TestInit /\ [][TestNext]_vars

\* The indicator functions, called on every price series and period.
IndInit ==
    /\ now = 0
    /\ alerts = <<>>
    /\ last = Answer("init", NoId, 0, FALSE, <<>>)
    /\ calert = NewCooldownAlert(TRUE, CooldownDefault)
    /\ probe = NoProbe
    /\ monitor = NewMonitor
    /\ batch = NoBatch
    /\ \/ \E prices \in PriceSeries, period \in 1..MaxPeriod :
              ind = Call("none", prices, period, Null, NoBands)
       \/ ind = Call("none", ExampleSeries, Len(ExampleSeries), Null, NoBands)
    /\ stockData = NoStockData
    /\ user = NewUser
    /\ userRequests = <<>>

IndNext ==
    \/ callSMA
    \/ callEMA
    \/ callRSI
    \/ callBollingerBands
    \/ \E fastPeriod \in 1..MaxPeriod : callMACD(fastPeriod)
    \/ callServiceSMA
    \/ callServiceEMA
    \/ callServiceRSI
    \/ \E fastPeriod \in 1..MaxPeriod : callServiceMACD(fastPeriod)

IndSpec == IndInit /\ [][IndNext]_vars

(***************************************************************************)
(* Properties.                                                             *)
(***************************************************************************)

\* The condition table of the specification (section 4.2), crossings with a
\* previous sample.
ConditionHolds(condition, current, previous, target) ==
    CASE condition = "above" -> current > target
      [] condition = "below" -> current < target
      [] condition = "crosses_above" ->
             previous # Null /\ previous <= target /\ current > target
      [] condition = "crosses_below" ->
             previous # Null /\ previous >= target /\ current < target
      [] OTHER -> FALSE

Expired(a, t) == IsDate(a.expiresAt) /\ a.expiresAt < t

\* The alert last triggered at some T and t lies in [T, T + cooldownPeriod).
InCooldownWindow(a, t) ==
    /\ a.lastTriggered # Null
    /\ a.lastTriggered <= t
    /\ t < a.lastTriggered + a.cooldownPeriod

\* C1: while an alert of the cooldown schema is within cooldownPeriod minutes
\* of its last trigger, canTrigger() refuses, the alert reports cooling down
\* (isInCooldown, and status 'triggered' when it is active), and an evaluation
\* with a satisfied condition does not trigger and leaves triggerCount and
\* lastTriggered as they were.
C1_CooldownSuppresses ==
    [][InCooldownWindow(calert, now) =>
          /\ ~canTrigger(calert, now)
          /\ isInCooldown(calert, now)
          /\ calert.isActive => cooldownStatus(calert) = "triggered"
          /\ last'.op = "evaluate" =>
                /\ ~last'.fired
                /\ last'.emitted = <<>>
                /\ calert'.triggerCount = calert.triggerCount
                /\ calert'.lastTriggered = calert.lastTriggered]_vars

\* C1 witness: the default 60-minute cooldown, triggered at 0, evaluated at
\* 30 with the condition satisfied, not triggered.
C1_Witness ==
    /\ calert.cooldownPeriod = CooldownDefault
    /\ calert.isActive
    /\ calert.lastTriggered = 0
    /\ calert.triggerCount = 1
    /\ now = 30
    /\ last.op = "evaluate"
    /\ last.args = <<TRUE>>
    /\ ~last.fired

\* C2: an alert of the controller's schema that triggered at T and is still
\* active and unexpired triggers again, and counts one more trigger, when it
\* is evaluated with a satisfied condition at or after T + 60 minutes.
C2_RefiresAfterCooldown ==
    [][\A id \in DOMAIN alerts :
          (/\ last'.op = "evaluate"
           /\ last'.id = id
           /\ alerts[id].isActive
           /\ ~Expired(alerts[id], now)
           /\ IsDate(alerts[id].triggeredAt)
           /\ now >= alerts[id].triggeredAt + CooldownDefault
           /\ alerts[id].triggerCount < MaxTriggers
           /\ ConditionHolds(alerts[id].condition, last'.args[1],
                             last'.args[2], alerts[id].targetValue))
          => /\ last'.fired
             /\ alerts'[id].triggerCount = alerts[id].triggerCount + 1]_vars

\* C3: a stored alert whose expiresAt is earlier than now does not trigger:
\* shouldTrigger is false for every condition and every current and previous
\* value, whatever isActive and triggered are, and an evaluation of it fires
\* nothing.
C3_ExpiryDominates ==
    \A id \in DOMAIN alerts :
        Expired(alerts[id], now) =>
            /\ \A cond \in Conditions, c \in Values, p \in Values \cup {Null} :
                   ~shouldTrigger([alerts[id] EXCEPT !.condition = cond], c, p, now)
            /\ (last.op = "evaluate" /\ last.id = id) =>
                   ~last.fired /\ last.emitted = <<>>

\* C3 witness: an active, untriggered, expired alert was evaluated with a
\* value above its target and did not fire.
C3_Witness ==
    \E id \in DOMAIN alerts :
        /\ Expired(alerts[id], now)
        /\ alerts[id].isActive
        /\ ~alerts[id].triggered
        /\ alerts[id].condition = "above"
        /\ last.op = "evaluate"
        /\ last.id = id
        /\ last.args[1] > alerts[id].targetValue
        /\ ~last.fired

\* The order of the status checks as the claim has it: expired first.
ExpiredFirstStatus(a, t) ==
    IF Expired(a, t) THEN "expired"
    ELSE IF ~a.isActive THEN "inactive"
    ELSE IF a.triggered THEN "triggered"
    ELSE "active"

C5_NoSingleSampleCrossing ==
    (/\ probe.alert.condition \in {"crosses_above", "crosses_below"}
     /\ probe.currentValue # Null
     /\ \/ last.op = "shouldTrigger" /\ probe.previousValue = Null
        \/ last.op = "test")
    => ~last.fired

C7_TriggerBookkeeping ==
    [][\A id \in DOMAIN alerts :
          (last'.op = "evaluate" /\ last'.id = id) =>
              IF last'.fired
              THEN /\ id \in DOMAIN alerts'
                   /\ alerts'[id].triggerCount = alerts[id].triggerCount + 1
                   /\ alerts'[id].triggeredAt = now
                   /\ alerts'[id].triggered
                   /\ last'.emitted = <<TriggerEvent(id, last'.args[1], now)>>
              ELSE /\ alerts' = alerts
                   /\ last'.emitted = <<>>]_vars

\* C7 witness: the price alert {above, 25} with triggerCount 0, evaluated at
\* 30, has triggered and counts 1.
C7_Witness ==
    \E id \in DOMAIN alerts :
        /\ alerts[id].alertType = "price"
        /\ alerts[id].condition = "above"
        /\ alerts[id].targetValue = 25000
        /\ last.op = "evaluate"
        /\ last.id = id
        /\ last.args[1] = 30000
        /\ last.fired
        /\ alerts[id].triggerCount = 1
        /\ alerts[id].triggeredAt = now

\* C8: the alerts findActiveAlerts selects, and so the alerts a tick loads,
\* are exactly the stored alerts whose status is 'active'.
C8_LoadedAreTheActive ==
    LET active == {id \in DOMAIN alerts : status(alerts[id], now) = "active"}
    IN  /\ findActiveAlerts(alerts, now) = active
        /\ last.op = "tick" => last.loaded = active

\* C9: a toggle of an alert whose status is active leaves it stored with a
\* status other than active, and no toggle leaves the stored alert as it was.
C9_ToggleChangesTheAlert ==
    [][\A id \in DOMAIN alerts :
          (last'.op = "toggle" /\ last'.id = id /\ last'.code = 200) =>
              /\ id \in DOMAIN alerts'
              /\ alerts'[id] # alerts[id]
              /\ status(alerts[id], now) = "active" =>
                     status(alerts'[id], now) # "active"]_vars

\* C10: a create request for a technical alert without indicatorType stores
\* nothing, and no stored alert is technical without an indicatorType.
C10_NoTechnicalWithoutIndicator ==
    \A id \in DOMAIN alerts :
        alerts[id].alertType = "technical" => alerts[id].indicatorType # NoString

\* The quote cache: records stored before the run, quote requests on both
\* paths, and the clock.
CacheInit ==
    /\ now \in CacheTimes
    /\ alerts = <<>>
    /\ last = Answer("init", NoId, 0, FALSE, <<>>)
    /\ calert = NewCooldownAlert(TRUE, CooldownDefault)
    /\ probe = NoProbe
    /\ monitor = NewMonitor
    /\ batch = NoBatch
    /\ ind = NoCall
    /\ \E records \in Stores(now) :
           stockData = [NoStockData EXCEPT !.records = records]
    /\ user = NewUser
    /\ userRequests = <<>>

CacheNext ==
    \/ \E symbol \in Symbols, finnhub \in {"ok", "error"}, t \in 0..now,
          alphaVantage \in {"ok", "error"} :
           getQuote(symbol, finnhub, t, alphaVantage)
    \/ \E symbol \in Symbols,
          alphaVantage \in {"ok", "no price", "timeout", "error"} :
           getStockQuote(symbol, alphaVantage)
    \/ Elapse

CacheSpec == CacheInit /\ [][CacheNext]_vars

\* The account lockout: failed and successful logins of one user, requests
\* with the user's token, and the clock.
LockInit ==
    /\ now = 0
    /\ alerts = <<>>
    /\ last = Answer("init", NoId, 0, FALSE, <<>>)
    /\ calert = NewCooldownAlert(TRUE, CooldownDefault)
    /\ probe = NoProbe
    /\ monitor = NewMonitor
    /\ batch = NoBatch
    /\ ind = NoCall
    /\ stockData = NoStockData
    /\ user = NewUser
    /\ userRequests = <<>>

LockNext ==
    \/ \E r \in Requests : findUser(r)
    \/ \E r \in Requests : incLoginAttempts(r)
    \/ \E r \in Requests : resetLoginAttempts(r)
    \/ \E token \in {"none", "invalid", "valid"} : authenticateToken(token)
    \/ Pass

LockSpec == LockInit /\ [][LockNext]_vars

\* The alert routes that take an alert id, asked by either user.
OwnerNext ==
    \/ \E u \in Users, body \in CreateBodies : createAlert(u, body)
    \/ \E u \in Users, id \in AlertIds : getAlert(u, id)
    \/ \E u \in Users, id \in AlertIds, b \in BOOLEAN :
           updateAlert(u, id, "isActive", b)
    \/ \E u \in Users, id \in AlertIds, owner \in Users :
           updateAlert(u, id, "userId", owner)
    \/ \E u \in Users, id \in AlertIds, owner \in Users :
           updateAlert(u, id, "$set.userId", owner)
    \/ \E u \in Users, id \in AlertIds : toggleAlert(u, id)
    \/ \E u \in Users, id \in AlertIds : deleteAlert(u, id)

OwnerSpec == Init /\ [][OwnerNext]_vars

\* The rate limiter: requests of two users and of nobody, and the clock.
RateNext ==
    \/ \E u \in Users \cup {Anonymous} : rateLimitByUser(u)
    \/ Wait

RateSpec == Init /\ [][RateNext]_vars

\* C11: an alert leaves the store only through a successful delete request
\* for it; no other step, and no passing of time beyond expiresAt, removes a
\* stored alert.
C11_OnlyDeleteRemoves ==
    [][\A id \in DOMAIN alerts :
          id \notin DOMAIN alerts' =>
              /\ last'.op = "delete"
              /\ last'.id = id
              /\ last'.code = 200]_vars

\* C12: once a stored alert is expired (expiresAt < now), no step on it
\* makes its status active and no evaluation of it triggers.
C12_ExpiryIsTerminal ==
    [][\A id \in DOMAIN alerts \cap DOMAIN alerts' :
          Expired(alerts[id], now) =>
              /\ status(alerts'[id], now') # "active"
              /\ ~(last'.op = "evaluate" /\ last'.id = id /\ last'.fired)]_vars

\* C13: at most one run of checkAlerts is in progress at any time, and a run
\* begins only when every earlier run has reached its end.
C13_TicksNeverOverlap ==
    /\ inProgress(monitor) <= 1
    /\ monitor.microtasks > 0 => inProgress(monitor) = 0
    /\ monitor.completed <= monitor.started

\* C13 witness: one cron job has ticked twice and both runs have completed,
\* the second callback still waiting to resume.
C13_Witness ==
    /\ monitor.jobs = 1
    /\ monitor.isRunning
    /\ monitor.started = 2
    /\ monitor.completed = 2
    /\ monitor.microtasks = 1
    /\ last.op = "cronTick"

\* C16: an update request leaves the alert's triggerCount, triggered flag
\* and triggeredAt as they were, whatever path its body carries.
C16_UpdateKeepsBookkeeping ==
    [][\A id \in DOMAIN alerts :
          (last'.op = "update" /\ last'.id = id) =>
              /\ id \in DOMAIN alerts'
              /\ alerts'[id].triggerCount = alerts[id].triggerCount
              /\ alerts'[id].triggered = alerts[id].triggered
              /\ alerts'[id].triggeredAt = alerts[id].triggeredAt]_vars

\* The fetches of a batch that succeeded, in request order.
Succeeded(b) == {i \in DOMAIN b.symbols : b.fetched[i] = "ok"}

\* One entry per requested symbol, in request order: its quote and no error
\* where the fetch succeeded, an error and no quote where it failed.
OneEntryPerSymbol(b) ==
    /\ Len(b.result) = Len(b.symbols)
    /\ \A i \in DOMAIN b.symbols :
           /\ i \in DOMAIN b.result
           /\ b.result[i].symbol = b.symbols[i]
           /\ b.fetched[i] = "ok" =>
                  /\ b.result[i].quote # NoQuote
                  /\ b.result[i].quote.symbol = b.symbols[i]
                  /\ b.result[i].error = NoError
           /\ b.fetched[i] = "failed" =>
                  /\ b.result[i].quote = NoQuote
                  /\ b.result[i].error # NoError

\* The symbols of a list of entries, in order.
EntrySymbols(entries) == [k \in DOMAIN entries |-> entries[k].symbol]

\* The items of the list `symbols` whose index is in `keep`, in order.
RECURSIVE Kept(_, _, _)
Kept(symbols, keep, i) ==
    IF i > Len(symbols) THEN <<>>
    ELSE IF i \in keep THEN <<symbols[i]>> \o Kept(symbols, keep, i + 1)
    ELSE Kept(symbols, keep, i + 1)

\* C14 as claimed: every batch, of getMultipleQuotes and of getMarketOverview
\* alike, never raises and returns exactly one entry per requested symbol in
\* request order, a quote where the fetch succeeded and an error entry
\* without a quote where it failed.
C14_OneEntryPerSymbolEverywhere ==
    /\ ~batch.raised
    /\ batch.returned => OneEntryPerSymbol(batch)

\* C14 as amended: no batch raises, and a failed fetch aborts none; a batch
\* of getMultipleQuotes (server and client) returns exactly one entry per
\* requested symbol in request order, a quote where the fetch succeeded and
\* an error entry without a quote where it failed; getMarketOverview returns
\* the quotes of the symbols whose fetch succeeded, in request order, and no
\* entry for a symbol whose fetch failed.
C14_FailuresIsolated ==
    /\ ~batch.raised
    /\ (batch.returned /\ batch.kind \in {"server", "client"}) =>
           OneEntryPerSymbol(batch)
    /\ (batch.returned /\ batch.kind = "overview") =>
           /\ EntrySymbols(batch.result) = Kept(batch.symbols, Succeeded(batch), 1)
           /\ \A k \in DOMAIN batch.result :
                  /\ batch.result[k].quote # NoQuote
                  /\ batch.result[k].error = NoError

\* C14 witness: a server batch over AAPL, MSFT where the fetch of AAPL failed
\* at both sources and MSFT's succeeded has returned an error entry and a
\* quote, in that order.
C14_Witness ==
    /\ batch.kind = "server"
    /\ batch.returned
    /\ batch.symbols = <<"AAPL", "MSFT">>
    /\ batch.fetched = <<"failed", "ok">>
    /\ batch.result[1].quote = NoQuote
    /\ batch.result[1].error = "timeout"
    /\ batch.result[2].quote # NoQuote

\* C15: within one batch of the server's getMultipleQuotes no external
\* price-data source is called more than once for a symbol, however often
\* the symbol is referenced and however the concurrent fetches interleave
\* (the fallback from Finnhub to Alpha Vantage is not counted as a second
\* call: each source is counted on its own).
C15_OneFetchPerSymbol ==
    batch.kind = "server" =>
        \A sym \in Symbols, source \in Sources : batch.calls[<<sym, source>>] <= 1

\* C17: a test-alert request and a call of shouldTrigger leave the store as
\* it was: no alert is created or deleted and no path of a stored alert
\* (triggerCount, triggered, triggeredAt, lastChecked, isActive) changes,
\* whatever the decision.
C17_TestLeavesTheStore ==
    [][last'.op \in {"test", "shouldTrigger"} =>
          /\ DOMAIN alerts' = DOMAIN alerts
          /\ \A id \in DOMAIN alerts : alerts'[id] = alerts[id]]_vars

\* C17 witness: a test request that answered 'trigger' while the store
\* holds an untriggered alert that was never checked.
C17_Witness ==
    /\ last.op = "test"
    /\ last.code = 200
    /\ last.fired
    /\ \E id \in DOMAIN alerts :
           /\ ~alerts[id].triggered
           /\ alerts[id].triggerCount = 0
           /\ alerts[id].lastChecked = Undefined

\* C18: when the metric of an evaluation is null (insufficient data), the
\* evaluation does not trigger, for every condition and target: shouldTrigger
\* on a null current value, and a test request for a technical alert whose
\* indicator has insufficient data.
C18_AbsentDataNeverTriggers ==
    (/\ probe.currentValue = Null
     /\ \/ last.op = "shouldTrigger"
        \/ last.op = "test" /\ probe.alert.alertType = "technical")
    => ~last.fired

\* C19: on a price series shorter than the period, calculateSMA and
\* calculateEMA return null, and on one shorter than period + 1
\* calculateRSI returns null.
C19_ShortSeriesGiveNull ==
    /\ (ind.fn \in {"sma", "ema"} /\ Len(ind.prices) < ind.period) =>
           ind.value = Null
    /\ (ind.fn = "rsi" /\ Len(ind.prices) < ind.period + 1) =>
           ind.value = Null

\* C19 witness: calculateSMA was called with two prices and period 3 and
\* returned null.
C19_Witness ==
    /\ ind.fn = "sma"
    /\ Len(ind.prices) = 2
    /\ ind.period = 3
    /\ ind.value = Null

\* C20: on a series of at least `period` prices that all equal one value,
\* calculateBollingerBands returns upper = middle = lower = that value, for
\* every value of the price domain, 0 included.
C20_ConstantSeriesFlatBands ==
    (/\ ind.fn = "bollinger"
     /\ Len(ind.prices) >= ind.period
     /\ \A i \in DOMAIN ind.prices : ind.prices[i] = ind.prices[1])
    => ind.bands = Bands(ind.prices[1], ind.prices[1], ind.prices[1])

\* The bar-to-bar changes of a series among its last n.
LastChanges(prices, n) ==
    {prices[i + 1] - prices[i] : i \in {j \in 1..(Len(prices) - 1) : j >= Len(prices) - n}}

\* C21: on a series of at least period + 1 prices whose last `period`
\* bar-to-bar changes are all non-negative, calculateRSI returns exactly 100.
C21_NoLossesGiveHundred ==
    (/\ ind.fn \in {"rsi", "service.rsi"}
     /\ Len(ind.prices) >= ind.period + 1
     /\ \A d \in LastChanges(ind.prices, ind.period) : d >= 0)
    => ind.value = RSIMax

\* C21 witness: a series that fell before its last `period` changes, which
\* all rise or stay, gave 100.
C21_Witness ==
    /\ ind.fn = "rsi"
    /\ ind.period = 2
    /\ ind.prices = <<200, 0, 0, 100>>
    /\ ind.value = RSIMax

\* C22: on a series of at least `slow` prices, with fast < slow,
\* calculateMACD returns the MACD line EMA(fast) - EMA(slow) with signal and
\* histogram null, and it returns null only on a series shorter than `slow`.
C22_MACDLine ==
    (/\ ind.fn = "macd"
     /\ ind.fast < ind.period
     /\ Len(ind.prices) >= ind.period)
    => /\ ~ind.macd.isNull
       /\ ind.macd.macd = calculateEMA(ind.prices, ind.fast)
                              - calculateEMA(ind.prices, ind.period)
       /\ ind.macd.signal = Null
       /\ ind.macd.histogram = Null

\* The sum of the items i..Len(seq) of a series.
RECURSIVE SumFrom(_, _)
SumFrom(seq, i) == IF i > Len(seq) THEN 0 ELSE seq[i] + SumFrom(seq, i + 1)

\* C23: on a series of at least `period` prices calculateSMA returns the
\* arithmetic mean of its last `period` prices (rounded down to a hundredth),
\* the same for every series that ends in those prices; on 1, 2, 3, 4, 5
\* with period 5 it returns exactly 3.
C23_MeanOfTheLast ==
    (ind.fn \in {"sma", "service.sma"} /\ Len(ind.prices) >= ind.period) =>
        LET total == SumFrom(ind.prices, Len(ind.prices) - ind.period + 1)
        IN  /\ ind.value * ind.period <= total
            /\ total < (ind.value + 1) * ind.period
            /\ \A other \in PriceSeries :
                   (/\ Len(other) >= ind.period
                    /\ LastN(other, ind.period) = LastN(ind.prices, ind.period))
                   => calculateSMA(other, ind.period) = ind.value
            /\ ind.prices = ExampleSeries => ind.value = 300

\* C23 witness: calculateSMA of 1, 2, 3, 4, 5 with period 5 returned 3.
C23_Witness ==
    /\ ind.fn = "sma"
    /\ ind.prices = ExampleSeries
    /\ ind.period = 5
    /\ ind.value = 300

\* C26: the indicator functions of StockService return what those of
\* TechnicalIndicators return on the same prices and periods: the same
\* SMA, EMA and RSI, and for MACD the same line and the same null cases.
C26_ImplementationsAgree ==
    /\ ind.fn = "service.sma" =>
           ind.value = calculateSMA(ind.prices, ind.period)
    /\ ind.fn = "service.ema" =>
           ind.value = calculateEMA(ind.prices, ind.period)
    /\ ind.fn = "service.rsi" =>
           ind.value = calculateRSI(ind.prices, ind.period)
    /\ ind.fn = "service.macd" =>
           LET dashboard == calculateMACD(ind.prices, ind.fast, ind.period)
           IN  /\ ind.macd.isNull = dashboard.isNull
               /\ ~dashboard.isNull => ind.macd.value = dashboard.macd

\* C26 witness: StockService computed an EMA of a series that rises and
\* falls, longer than the period.
C26_Witness ==
    /\ ind.fn = "service.ema"
    /\ ind.period = 2
    /\ ind.prices = <<0, 200, 100, 200>>
    /\ ind.value # Null

\* C24: a crosses_above evaluation depends on the previous value, the
\* current value and the target only, and one whose previous value is
\* already above the target (previous = 20, current = 20, target = 15, the
\* re-evaluation without a new bar) does not fire, on shouldTrigger and on
\* the test-alert path alike.
C24_NoSecondCrossing ==
    (/\ last.op \in {"shouldTrigger", "test"}
     /\ probe.alert.condition = "crosses_above"
     /\ probe.currentValue # Null
     /\ probe.previousValue # Null
     /\ probe.previousValue > probe.alert.targetValue)
    => ~last.fired

\* The window of the path a quote was asked on.
Freshness(path) ==
    IF path = "monitor" THEN MonitorFreshness ELSE DashboardFreshness

\* C25: a quote request answers from the cache (source 'cache') only with a
\* stored record of the symbol whose timestamp lies within the path's window
\* before the request (5 minutes for getQuote, 1 minute for getStockQuote);
\* when the collection holds no such record a provider is asked and the
\* answer never comes from an older record.
C25_CacheWithinWindow ==
    stockData.path # "none" =>
        LET since == stockData.at - Freshness(stockData.path)
            fresh == {r \in stockData.records :
                         /\ r.symbol = stockData.symbol
                         /\ r.timestamp >= since
                         /\ r.timestamp <= stockData.at}
        IN  /\ stockData.source = "cache" =>
                   StockRecord(stockData.symbol, stockData.timestamp) \in fresh
            /\ fresh = {} => stockData.fetched /\ stockData.source # "cache"

\* C25 witness: getQuote found only a record six minutes old, older than
\* its window, and asked a provider.
C25_Witness ==
    /\ stockData.path = "monitor"
    /\ stockData.fetched
    /\ stockData.source # "cache"
    /\ \E r \in stockData.records :
           r.symbol = stockData.symbol /\ r.timestamp = stockData.at - 6

\* C27: once five failed attempts are recorded by incLoginAttempts with no
\* resetLoginAttempts in between, the account carries a lock that ends two
\* hours after the attempt that set it; while lockUntil is in the future
\* isLocked is true and a request with the user's token is answered 423; a
\* failed attempt recorded after the lock expired clears the lock and
\* restarts the counter at 1.
C27_LockoutAfterFive ==
    /\ user.loginAttempts >= LockThreshold => user.lockUntil # Null
    /\ (user.op = "incLoginAttempts" /\ user.lockUntil # Null) =>
           user.lockUntil <= user.at + LockDuration
    /\ (/\ user.op = "authenticateToken"
        /\ user.code # 401
        /\ user.lockUntil # Null /\ user.lockUntil > user.at)
       => isLocked(user, user.at) /\ user.code = 423
    /\ (user.op = "incLoginAttempts" /\ user.expired)
       => user.loginAttempts = 1 /\ user.lockUntil = Null

\* A request of the user u on the alert id: get, update, toggle or delete.
RequestOn(u, id) ==
    \/ getAlert(u, id)
    \/ \E b \in BOOLEAN : updateAlert(u, id, "isActive", b)
    \/ \E path \in {"userId", "$set.userId"}, owner \in Users :
           updateAlert(u, id, path, owner)
    \/ toggleAlert(u, id)
    \/ deleteAlert(u, id)

\* C28: get, update, toggle and delete by alert id answer 404 for an alert
\* of another user and leave it as it is, and no update changes the owner
\* of an alert.
C28_OwnAlertsOnly ==
    [][\A id \in DOMAIN alerts :
           /\ \A u \in Users :
                  (alerts[id].userId # u /\ RequestOn(u, id))
                  => (last'.code = 404 /\ alerts' = alerts)
           /\ (last'.op = "update" /\ id \in DOMAIN alerts')
              => alerts'[id].userId = alerts[id].userId]_vars

\* C29: after every step of the monitor at most one cron job is started and
\* not stopped, and isRunning is true exactly when the monitor holds a job,
\* the one that is ticking; startMonitoring on a running monitor schedules
\* no job, stopMonitoring leaves isRunning false and no job, and
\* startMonitoring on a stopped monitor starts a job never used before.
C29_OneJobAtMost ==
    [][/\ Cardinality(monitor'.ticking) <= 1
       /\ monitor'.isRunning <=> monitor'.cronJob # Null
       /\ monitor'.ticking =
              IF monitor'.isRunning THEN {monitor'.cronJob} ELSE {}
       /\ (last'.op = "startMonitoring" /\ monitor.isRunning)
          => /\ monitor'.jobs = monitor.jobs
             /\ monitor'.cronJob = monitor.cronJob
       /\ last'.op = "stopMonitoring"
          => ~monitor'.isRunning /\ monitor'.cronJob = Null
       /\ (last'.op = "startMonitoring" /\ ~monitor.isRunning)
          => /\ monitor'.isRunning
             /\ monitor'.cronJob \notin 1..monitor.jobs]_vars

\* C29 witness: started, stopped and started again, the monitor runs its
\* second job and no other.
C29_Witness ==
    /\ last.op = "startMonitoring"
    /\ monitor.isRunning
    /\ monitor.jobs = 2
    /\ monitor.cronJob = 2
    /\ monitor.ticking = {2}

\* C30: the limiter admits at most maxRequests requests of a user in one
\* window: a request of a user whose window has not reached its reset time
\* and whose count is maxRequests is answered 429 and changes no count, one
\* below the limit is admitted and counted, the first request after the
\* reset time is admitted and starts a window of windowMs with count 1, and
\* no request changes the entry of another user.
C30_AtMostMaxRequests ==
    [][\A u \in Users :
           (now' = now /\ last'.op = "rateLimitByUser" /\ last'.args = <<u>>)
           => /\ u \in DOMAIN userRequests'
              /\ userRequests'[u].count \in 1..MaxRequests
              /\ \A other \in DOMAIN userRequests \ {u} :
                     /\ other \in DOMAIN userRequests'
                     /\ userRequests'[other] = userRequests[other]
              /\ u \in DOMAIN userRequests =>
                     LET userLimit == userRequests[u]
                     IN  /\ (/\ now <= userLimit.resetTime
                             /\ userLimit.count = MaxRequests)
                            => /\ last'.code = 429
                               /\ userRequests' = userRequests
                         /\ (/\ now <= userLimit.resetTime
                             /\ userLimit.count < MaxRequests)
                            => /\ last'.code = 200
                               /\ userRequests'[u] =
                                      RateEntry(userLimit.count + 1,
                                                userLimit.resetTime)
                         /\ now > userLimit.resetTime
                            => /\ last'.code = 200
                               /\ userRequests'[u] =
                                      RateEntry(1, now + WindowDefault)]_vars

\* C30 witness: a user who used up the window is answered 429 while
\* another user's window is open and untouched.
C30_Witness ==
    /\ last.op = "rateLimitByUser"
    /\ last.code = 429
    /\ last.args = <<"u1">>
    /\ DOMAIN userRequests = Users
    /\ userRequests["u1"].count = MaxRequests
    /\ userRequests["u2"].count = 1
    /\ now = userRequests["u1"].resetTime
====
